---- MODULE Spec2Model ----
(***************************************************************************)
(* The chat form of jsmejia78/ai-engineering-challenge as a state machine. *)
(*                                                                         *)
(* Three revisions of the form are modelled, selected by `revision`:       *)
(*   "App.jsx"   src/frontend/src/App.jsx   (current)                       *)
(*   "part_000"  src/unnamed/part_000       (earlier, with RAG)             *)
(*   "part_001"  src/unnamed/part_001       (earliest, plain chat only)     *)
(*                                                                         *)
(* React state (useState) is the global state.  An async handler is a      *)
(* coroutine: every step of the model is the code that runs between two    *)
(* awaits, applied to the state the functional updaters see.  Text is a    *)
(* sequence of code points, a response body is a sequence of byte chunks.  *)
(*                                                                         *)
(* Specifications:                                                         *)
(*   Spec           the chat handlers of App.jsx                           *)
(*   SpecRevisions  the chat handlers of the three revisions               *)
(*   SpecUpdaters   the chat handlers of App.jsx and of part_001           *)
(*   SpecLive       the chat handlers of App.jsx with every wait settled   *)
(*   SpecRag        App.jsx from construction, with the RAG side (API key, *)
(*                  file selection, upload, clear index, status effect)    *)
(*   SpecIndex      the RAG side of App.jsx alone                          *)
(*   SpecTwin       handleRagChat and handleRegularChat side by side       *)
(***************************************************************************)
EXTENDS Integers, Sequences, FiniteSets, TLC

(***************************************************************************)
(* Bounds of the model.                                                    *)
(***************************************************************************)
MaxSubmits == 2      \* non-blank submits in one behaviour
MaxChunks  == 2      \* chunks one response stream delivers
MaxCalls   == 2      \* handler invocations that can be in flight together
MaxEffects == 2      \* runs of the status effect that can be in flight together
MaxClears  == 1      \* clearDataFileIndex invocations in flight together
MaxRagSubmits == 1   \* non-blank submits in one behaviour with the RAG side
MaxRagEffects == 1   \* runs of the status effect in flight together while
                     \* the chat handlers run as well

Revisions == {"App.jsx", "part_000", "part_001"}

(***************************************************************************)
(* Inputs.                                                                 *)
(***************************************************************************)
\* what the user can type: "", " ", " X"
InputTexts == {<< >>, <<32>>, <<32, 88>>}
\* byte chunks a server can stream: "H" with the first byte of U+00E9, and
\* the second byte of U+00E9
ChunkSet == {<<72, 195>>, <<169>>}
\* HTTP statuses of a chat response
Statuses == {200, 500}
\* err.message of a rejected fetch or a failed read ("" is a legal message)
RejectMessages == {"Failed to fetch", ""}
\* what the user can type as the API key: "", " ", "k"
KeyTexts == {<< >>, <<32>>, <<107>>}
\* file.type of the file picked in the file dialog; "none" = dialog cancelled
FileTypes == {"application/pdf", "image/png"}
Selections == FileTypes \cup {"none"}
\* errorData.detail of a failed upload ("" = no detail)
UploadDetails == {"Invalid API key", ""}

(***************************************************************************)
(* String.prototype.trim and the blank test `!s.trim()`.                   *)
(***************************************************************************)
IsWhiteSpace(c) == c \in {9, 10, 11, 12, 13, 32, 160, 8232, 8233, 65279}

RECURSIVE TrimStart(_)
TrimStart(s) ==
  IF s = << >> THEN << >>
  ELSE IF IsWhiteSpace(Head(s)) THEN TrimStart(Tail(s)) ELSE s

RECURSIVE TrimEnd(_)
TrimEnd(s) ==
  IF s = << >> THEN << >>
  ELSE IF IsWhiteSpace(s[Len(s)]) THEN TrimEnd(SubSeq(s, 1, Len(s) - 1)) ELSE s

Trim(s) == TrimEnd(TrimStart(s))

\* (variant) a blank test without the trim: `!userMessage`
IsEmptyText(s) == s = << >>

\* `!userMessage.trim()`: the empty string is the only falsy string
IsBlank(s) == Trim(s) = << >>

(***************************************************************************)
(* TextDecoder (UTF-8).  The decoder object keeps the bytes of an          *)
(* unfinished character between decode() calls made with {stream: true}.   *)
(***************************************************************************)
REPLACEMENT == 65533
BOM == 65279

NewDecoder ==
  [cp |-> 0, seen |-> 0, needed |-> 0, lower |-> 128, upper |-> 191,
   bomSeen |-> FALSE, doNotFlush |-> FALSE]

\* the decoder's handler for one byte: the new decoder and the code points
\* emitted.  A byte outside lower..upper ends the unfinished character with
\* U+FFFD and is then processed again as a first byte.
RECURSIVE Utf8Byte(_, _)
Utf8Byte(d, b) ==
  IF d.needed = 0 THEN
    IF b <= 127 THEN [dec |-> d, out |-> <<b>>]
    ELSE IF b >= 194 /\ b <= 223 THEN
      [dec |-> [d EXCEPT !.needed = 1, !.cp = b % 32], out |-> << >>]
    ELSE IF b >= 224 /\ b <= 239 THEN
      [dec |-> [d EXCEPT !.needed = 2, !.cp = b % 16,
                         !.lower = IF b = 224 THEN 160 ELSE 128,
                         !.upper = IF b = 237 THEN 159 ELSE 191],
       out |-> << >>]
    ELSE IF b >= 240 /\ b <= 244 THEN
      [dec |-> [d EXCEPT !.needed = 3, !.cp = b % 8,
                         !.lower = IF b = 240 THEN 144 ELSE 128,
                         !.upper = IF b = 244 THEN 143 ELSE 191],
       out |-> << >>]
    ELSE [dec |-> d, out |-> <<REPLACEMENT>>]
  ELSE IF b < d.lower \/ b > d.upper THEN
    LET reset == [d EXCEPT !.cp = 0, !.seen = 0, !.needed = 0,
                           !.lower = 128, !.upper = 191]
        again == Utf8Byte(reset, b)
    IN  [dec |-> again.dec, out |-> <<REPLACEMENT>> \o again.out]
  ELSE
    LET cp2 == d.cp * 64 + (b % 64)
    IN  IF d.seen + 1 # d.needed
        THEN [dec |-> [d EXCEPT !.cp = cp2, !.seen = d.seen + 1,
                                !.lower = 128, !.upper = 191],
              out |-> << >>]
        ELSE [dec |-> [d EXCEPT !.cp = 0, !.seen = 0, !.needed = 0,
                                !.lower = 128, !.upper = 191],
              out |-> <<cp2>>]

RECURSIVE Utf8Bytes(_, _)
Utf8Bytes(d, bytes) ==
  IF bytes = << >> THEN [dec |-> d, out |-> << >>]
  ELSE LET one  == Utf8Byte(d, Head(bytes))
           rest == Utf8Bytes(one.dec, Tail(bytes))
       IN  [dec |-> rest.dec, out |-> one.out \o rest.out]

\* end of the queue on a flushing call: an unfinished character becomes U+FFFD
Utf8Flush(d) ==
  IF d.needed # 0
  THEN [dec |-> [d EXCEPT !.cp = 0, !.seen = 0, !.needed = 0,
                          !.lower = 128, !.upper = 191],
        out |-> <<REPLACEMENT>>]
  ELSE [dec |-> d, out |-> << >>]

\* serialising the output: the first code point is dropped if it is a BOM
StripBOM(d, out) ==
  IF d.bomSeen \/ out = << >> THEN [dec |-> d, out |-> out]
  ELSE [dec |-> [d EXCEPT !.bomSeen = TRUE],
        out |-> IF Head(out) = BOM THEN Tail(out) ELSE out]

\* TextDecoder.prototype.decode(bytes, {stream}): the decoder afterwards and
\* the text returned
Decode(dec, bytes, stream) ==
  LET d0   == IF dec.doNotFlush THEN dec ELSE NewDecoder
      d1   == [d0 EXCEPT !.doNotFlush = stream]
      body == Utf8Bytes(d1, bytes)
      tail == IF stream THEN [dec |-> body.dec, out |-> << >>]
              ELSE Utf8Flush(body.dec)
  IN  StripBOM(tail.dec, body.out \o tail.out)

(***************************************************************************)
(* State.                                                                  *)
(***************************************************************************)
VARIABLES
  revision,          \* which revision of the form is running
  userMessage,       \* useState(""): the message input
  apiKey,            \* useState(""): the credential typed in the settings
  loading,           \* useState(false): the busy flag
  error,             \* useState(""): the visible error message
  conversation,      \* useState([]): the transcript
  dataFile,          \* useState(null): the selected file ("null" or a type)
  dataFileStatus,    \* useState(null): the index status known to the client
  isRagMode,         \* useState(false)
  uploadingDataFile, \* useState(false)
  effects,           \* the runs of the status effect (promise chains)
  upload,            \* the position of uploadDataFile
  clearing,          \* clearDataFileIndex invocations awaiting their DELETE
  deleteIssued,      \* a clear-index DELETE was issued and no upload has
                     \* succeeded since
  serverIndex,       \* the index on the server, as the requests of this
                     \* form have left it
  calls,             \* the invocations of the chat handler (coroutines)
  sent,              \* chat HTTP requests dispatched so far
  now,               \* the last reading of the clock (new Date())
  twin,              \* two forms side by side, one served by handleRagChat
                     \* and one by handleRegularChat, given the same inputs
  event              \* the handler or continuation that ran last

vars == <<revision, userMessage, apiKey, loading, error, conversation,
          dataFile, dataFileStatus, isRagMode, uploadingDataFile,
          effects, upload, clearing, deleteIssued, serverIndex,
          calls, sent, now, twin, event>>

chatVars == <<userMessage, loading, error, conversation, calls, sent>>
ragVars  == <<apiKey, dataFile, dataFileStatus, isRagMode, uploadingDataFile,
             effects, upload, clearing, deleteIssued, serverIndex>>

CallIds == 1 .. MaxCalls

\* dataFileStatus === null
NullStatus == [isNull |-> TRUE, is_indexed |-> FALSE]
Status(ix) == [isNull |-> FALSE, is_indexed |-> ix]

\* `dataFileStatus?.is_indexed`
IsIndexed == (~dataFileStatus.isNull) /\ dataFileStatus.is_indexed

\* a handler invocation that is not running.  Besides the handler's locals
\* (currentUserMessage, result, decoder) the record keeps what happened to
\* the invocation: the transcript it started from (pre), the request it sent
\* (endpoint, user_message, nreq), the response (status, delivered = the
\* chunks read so far, nread), how it ended (outcome), whether
\* clearConversation ran while it was in flight (cleared), and the
\* timestamps of the user turn and of the placeholder it appended (utime,
\* atime; 0 = none).
IdleCall ==
  [pc |-> "idle", kind |-> "none", endpoint |-> "none",
   currentUserMessage |-> << >>, result |-> << >>, decoder |-> NewDecoder,
   nread |-> 0, pre |-> << >>, delivered |-> << >>, outcome |-> "none",
   status |-> 0, user_message |-> << >>, nreq |-> 0, cleared |-> "no",
   utime |-> 0, atime |-> 0]

\* positions of a handler between its entry and its return
SyncPcs   == {"appended", "cleared"}   \* inside the synchronous prefix
AwaitPcs  == {"fetch", "read"}         \* suspended at an await
ActivePcs == SyncPcs \cup AwaitPcs

\* JavaScript runs one handler to its next await before anything else runs
Quiescent == \A i \in CallIds : calls[i].pc \notin SyncPcs

\* the slot a new invocation takes
HasFreeCall == \E i \in CallIds : calls[i].pc \notin ActivePcs
FreeCall == CHOOSE i \in CallIds :
              /\ calls[i].pc \notin ActivePcs
              /\ \A j \in CallIds : calls[j].pc \notin ActivePcs => i <= j

\* a run of the status effect: where its promise chain stands, and whether
\* the dataFile it closed over was null
EffectIds == 1 .. MaxEffects
IdleEffect == [pc |-> "idle", noFile |-> TRUE]
EffectPending(e) == effects[e].pc \in {"status", "delete"}
HasFreeEffect == \E e \in EffectIds : ~EffectPending(e)
EffectsInFlight == Cardinality({e \in EffectIds : EffectPending(e)})
FreeEffect == CHOOSE e \in EffectIds :
                /\ ~EffectPending(e)
                /\ \A f \in EffectIds : ~EffectPending(f) => e <= f

\* React.useEffect(..., [dataFile]): the effect runs after the render that
\* follows mount and every change of dataFile, and sends the status request
RunEffect(efs, file) ==
  [efs EXCEPT ![FreeEffect] = [pc |-> "status", noFile |-> file = "null"]]

\* the chat side of a form: its state, and the position and the request of
\* the chat handler it runs; the locals of the handler (currentUserMessage,
\* result, decoder, and nread, the chunks read) come with its first run
NoRequest == [endpoint |-> "none", user_message |-> << >>, fields |-> {}]
TwinIdle ==
  [userMessage |-> << >>, loading |-> FALSE, error |-> "",
   conversation |-> << >>, pc |-> "idle", request |-> NoRequest]

\* The settings of the RAG side a chat can start from: the form as
\* constructed (no credential, no file, status not yet known, plain mode,
\* the status request of the mount effect on its way), and the form after
\* uploadDataFile has succeeded (credential and file present,
\* setDataFileStatus({is_indexed: true, ...}), setIsRagMode(true)).
RagNone ==
  [apiKey |-> << >>, dataFile |-> "null", dataFileStatus |-> NullStatus,
   isRagMode |-> FALSE, effects |-> [e \in EffectIds |-> IdleEffect],
   serverIndex |-> FALSE]
RagUnset ==
  [RagNone EXCEPT
     !.effects = [e \in EffectIds |->
                    IF e = 1 THEN [pc |-> "status", noFile |-> TRUE]
                    ELSE IdleEffect]]
RagIndexed ==
  [apiKey |-> <<107>>, dataFile |-> "application/pdf",
   dataFileStatus |-> Status(TRUE), isRagMode |-> TRUE,
   effects |-> [e \in EffectIds |-> IdleEffect], serverIndex |-> TRUE]

\* part_001 has no RAG state at all
RagSettings(rev) ==
  IF rev = "part_001" THEN {RagNone} ELSE {RagUnset, RagIndexed}

InitSettings(r) ==
  /\ userMessage = << >>
  /\ loading = FALSE
  /\ error = ""
  /\ conversation = << >>
  /\ apiKey = r.apiKey
  /\ dataFile = r.dataFile
  /\ dataFileStatus = r.dataFileStatus
  /\ isRagMode = r.isRagMode
  /\ effects = r.effects
  /\ uploadingDataFile = FALSE
  /\ upload = "idle"
  /\ clearing = 0
  /\ deleteIssued = FALSE
  /\ serverIndex = r.serverIndex
  /\ calls = [i \in CallIds |-> IdleCall]
  /\ sent = 0
  /\ now = 0
  /\ twin = [rag |-> TwinIdle, regular |-> TwinIdle]
  /\ event = "mount"

InitForm(revs) ==
  /\ revision \in revs
  /\ \E r \in RagSettings(revision) : InitSettings(r)

\* the current revision as constructed; the server may hold an index left
\* by an earlier session
InitRag ==
  /\ revision = "App.jsx"
  /\ \E ix \in BOOLEAN : InitSettings([RagUnset EXCEPT !.serverIndex = ix])

\* the current revision
Init == InitForm({"App.jsx"})

\* every revision of the form
InitRevisions == InitForm(Revisions)

\* the two revisions whose per-chunk updaters differ: the current one
\* (part_000 has the same chat handlers) and the earliest
InitUpdaters == InitForm({"App.jsx", "part_001"})

(***************************************************************************)
(* The transcript updaters passed to setConversation.                      *)
(***************************************************************************)
UserMsg(text, t) == [type |-> "user", content |-> text, timestamp |-> t]
AssistantMsg(t)  == [type |-> "assistant", content |-> << >>, timestamp |-> t]

\* prev => [...prev, msg]
AppendMsg(prev, msg) == Append(prev, msg)

\* (variant) a rollback that removes nothing
SliceNothing(prev) == prev

\* prev => prev.slice(0, -1)
SliceLast(prev) ==
  IF Len(prev) = 0 THEN << >> ELSE SubSeq(prev, 1, Len(prev) - 1)

\* (variant) an updater that adds the text to what the last entry holds
UpdateLastAppend(prev, result) ==
  IF Len(prev) >= 1 /\ prev[Len(prev)].type = "assistant"
  THEN [prev EXCEPT ![Len(prev)].content = prev[Len(prev)].content \o result]
  ELSE prev

\* (variant) an updater that builds the last entry anew instead of copying it
UpdateLastReplace(prev, result) ==
  IF Len(prev) >= 1
  THEN [prev EXCEPT ![Len(prev)] =
          [type |-> "assistant", content |-> result, timestamp |-> 0]]
  ELSE prev

\* (variant) an updater that writes only into a still empty assistant entry,
\* so that later chunks are skipped
UpdateLastOnce(prev, result) ==
  IF Len(prev) >= 1 /\ prev[Len(prev)].type = "assistant"
       /\ prev[Len(prev)].content = << >>
  THEN [prev EXCEPT ![Len(prev)].content = result]
  ELSE prev

\* the per-chunk updater of App.jsx and part_000: the last entry gets the
\* accumulated text if it is an assistant entry
UpdateLastGuarded(prev, result) ==
  IF Len(prev) >= 1 /\ prev[Len(prev)].type = "assistant"
  THEN [prev EXCEPT ![Len(prev)].content = result]
  ELSE prev

\* the per-chunk updater of part_001: the last entry gets the accumulated
\* text whatever it is (on an empty array the write lands on index -1 and
\* adds no element)
UpdateLastUnguarded(prev, result) ==
  IF Len(prev) >= 1
  THEN [prev EXCEPT ![Len(prev)].content = result]
  ELSE prev

\* (variant) an updater that writes into the first entry
UpdateFirst(prev, result) ==
  IF Len(prev) >= 1 THEN [prev EXCEPT ![1].content = result] ELSE prev

UpdateLast(prev, result) ==
  IF revision = "part_001" THEN UpdateLastUnguarded(prev, result)
  ELSE UpdateLastGuarded(prev, result)

\* err.message || "Unknown error occurred"  ("Unknown error" in part_001)
ErrorText(message) ==
  IF message # "" THEN message
  ELSE IF revision = "part_001" THEN "Unknown error"
  ELSE "Unknown error occurred"

HttpErrorMessage(status) == "HTTP error! status: " \o ToString(status)

\* res.ok
ResOk(status) == status >= 200 /\ status <= 299

(***************************************************************************)
(* The chat handlers: handleSubmit, handleRegularChat, handleRagChat       *)
(* (handleSubmit alone in part_001).                                       *)
(***************************************************************************)

\* new Date(): a turn's timestamp is written once and never read by the
\* form; every reading of the clock is taken to be later than the one before
ReadClock == now' = now + 1

\* (variant) an entry that puts the trimmed text into the user turn
EnterChatTrimmed(i, kind, endpoint) ==
  /\ loading' = TRUE
  /\ error' = ""
  /\ ReadClock
  /\ conversation' = AppendMsg(conversation, UserMsg(Trim(userMessage), now'))
  /\ calls' = [calls EXCEPT ![i] =
                 [IdleCall EXCEPT !.pc = "appended", !.kind = kind,
                                  !.endpoint = endpoint, !.pre = conversation,
                                  !.utime = now']]
  /\ UNCHANGED <<userMessage, sent>>

\* setLoading(true); setError(""); setConversation(prev => [...prev, userMsg])
EnterChat(i, kind, endpoint) ==
  /\ loading' = TRUE
  /\ error' = ""
  /\ ReadClock
  /\ conversation' = AppendMsg(conversation, UserMsg(userMessage, now'))
  /\ calls' = [calls EXCEPT ![i] =
                 [IdleCall EXCEPT !.pc = "appended", !.kind = kind,
                                  !.endpoint = endpoint, !.pre = conversation,
                                  !.utime = now']]
  /\ UNCHANGED <<userMessage, sent>>

\* `isRagMode && dataFileStatus?.is_indexed` (part_001 has no RAG mode)
UseRag == revision # "part_001" /\ isRagMode /\ IsIndexed

\* handleSubmit on a blank input: `if (!userMessage.trim()) return;`
HandleSubmitBlank ==
  /\ Quiescent
  /\ IsBlank(userMessage)
  /\ event' = "submitBlank"
  /\ UNCHANGED <<revision, twin, chatVars, ragVars, now>>

\* handleSubmit -> handleRegularChat (the body of handleSubmit in part_001)
HandleSubmitRegular ==
  /\ Quiescent
  /\ ~IsBlank(userMessage)
  /\ ~UseRag
  /\ sent < MaxSubmits
  /\ HasFreeCall
  /\ EnterChat(FreeCall, "regular", "/api/chat")
  /\ event' = "submitRegular"
  /\ UNCHANGED <<revision, twin, ragVars>>

\* (variant) a submit that takes the RAG path whenever a file is selected,
\* without looking at the index status
HandleSubmitRagOnFile ==
  /\ Quiescent
  /\ ~IsBlank(userMessage)
  /\ dataFile # "null"
  /\ sent < MaxSubmits
  /\ HasFreeCall
  /\ EnterChat(FreeCall, "rag", "/api/rag-chat")
  /\ event' = "submitRag"
  /\ UNCHANGED <<revision, twin, ragVars>>

\* handleSubmit -> handleRagChat
HandleSubmitRag ==
  /\ Quiescent
  /\ ~IsBlank(userMessage)
  /\ UseRag
  /\ ~(IsBlank(userMessage) \/ ~IsIndexed)
  /\ sent < MaxSubmits
  /\ HasFreeCall
  /\ EnterChat(FreeCall, "rag", "/api/rag-chat")
  /\ event' = "submitRag"
  /\ UNCHANGED <<revision, twin, ragVars>>

\* (variant) a handler that leaves the typed text in the input
ClearInputKeep(i) ==
  /\ calls[i].pc = "appended"
  /\ calls' = [calls EXCEPT ![i].pc = "cleared",
                            ![i].currentUserMessage = userMessage]
  /\ event' = "clearInput"
  /\ UNCHANGED <<revision, twin, userMessage, loading, error, conversation, sent,
                 ragVars, now>>

\* const currentUserMessage = userMessage; setUserMessage("");
ClearInput(i) ==
  /\ calls[i].pc = "appended"
  /\ userMessage' = << >>
  /\ calls' = [calls EXCEPT ![i].pc = "cleared",
                            ![i].currentUserMessage = userMessage]
  /\ event' = "clearInput"
  /\ UNCHANGED <<revision, twin, loading, error, conversation, sent, ragVars, now>>

\* (variant) a request that carries the trimmed text
DispatchTrimmed(i) ==
  /\ calls[i].pc = "cleared"
  /\ sent' = sent + 1
  /\ calls' = [calls EXCEPT ![i].pc = "fetch",
                            ![i].user_message = Trim(calls[i].currentUserMessage),
                            ![i].nreq = calls[i].nreq + 1]
  /\ event' = "dispatch"
  /\ UNCHANGED <<revision, twin, userMessage, loading, error, conversation,
                 ragVars, now>>

\* fetch(endpoint, {method: "POST", body: {user_message, ...}}), then await
Dispatch(i) ==
  /\ calls[i].pc = "cleared"
  /\ sent' = sent + 1
  /\ calls' = [calls EXCEPT ![i].pc = "fetch",
                            ![i].user_message = calls[i].currentUserMessage,
                            ![i].nreq = calls[i].nreq + 1]
  /\ event' = "dispatch"
  /\ UNCHANGED <<revision, twin, userMessage, loading, error, conversation,
                 ragVars, now>>

\* (variant) a catch block without the finally that releases the busy flag
CatchNoFinally(i, message, outcome, status) ==
  /\ error' = ErrorText(message)
  /\ conversation' = SliceLast(conversation)
  /\ calls' = [calls EXCEPT ![i].pc = "done", ![i].outcome = outcome,
                            ![i].status = status]
  /\ UNCHANGED <<loading, now>>

\* catch (err) { setError(...); setConversation(prev => prev.slice(0, -1)); }
\* finally { setLoading(false); }
Catch(i, message, outcome, status) ==
  /\ error' = ErrorText(message)
  /\ conversation' = SliceLast(conversation)
  /\ loading' = FALSE
  /\ calls' = [calls EXCEPT ![i].pc = "done", ![i].outcome = outcome,
                            ![i].status = status]
  /\ UNCHANGED now

\* the fetch promise rejects
FetchReject(i, message) ==
  /\ Quiescent
  /\ calls[i].pc = "fetch"
  /\ Catch(i, message, "rejected", 0)
  /\ event' = "fetchReject"
  /\ UNCHANGED <<revision, twin, userMessage, sent, ragVars>>

\* the fetch promise resolves with a response: the res.ok test (absent in
\* part_001), the res.body test, the placeholder, then the first read()
FetchRespond(i, status, hasBody) ==
  /\ Quiescent
  /\ calls[i].pc = "fetch"
  /\ IF revision # "part_001" /\ ~ResOk(status)
       THEN Catch(i, HttpErrorMessage(status), "http_error", status)
     ELSE IF ~hasBody
       THEN Catch(i, "No response body", "no_body", status)
     ELSE /\ ReadClock
          /\ conversation' = AppendMsg(conversation, AssistantMsg(now'))
          /\ calls' = [calls EXCEPT ![i].pc = "read", ![i].status = status,
                                    ![i].result = << >>,
                                    ![i].decoder = NewDecoder,
                                    ![i].atime = now']
          /\ UNCHANGED <<error, loading>>
  /\ event' = "fetchRespond"
  /\ UNCHANGED <<revision, twin, userMessage, sent, ragVars>>

\* decoder.decode(value, {stream: true}) on the decoder made before the loop;
\* new TextDecoder().decode(value) in part_001
DecodeChunk(decoder, bytes) ==
  IF revision = "part_001" THEN Decode(NewDecoder, bytes, FALSE)
  ELSE Decode(decoder, bytes, TRUE)

\* reader.read() yields a chunk: decode, accumulate, rewrite the last entry
ReadChunk(i, bytes) ==
  /\ Quiescent
  /\ calls[i].pc = "read"
  /\ calls[i].nread < MaxChunks
  /\ LET d   == DecodeChunk(calls[i].decoder, bytes)
         res == calls[i].result \o d.out
     IN  /\ conversation' = UpdateLast(conversation, res)
         /\ calls' = [calls EXCEPT ![i].result = res, ![i].decoder = d.dec,
                                   ![i].nread = calls[i].nread + 1,
                                   ![i].delivered = Append(calls[i].delivered, bytes)]
  /\ event' = "readChunk"
  /\ UNCHANGED <<revision, twin, userMessage, loading, error, sent, ragVars, now>>

\* (variant) an end of stream that does not release the busy flag
ReadDoneNoFinally(i) ==
  /\ Quiescent
  /\ calls[i].pc = "read"
  /\ calls' = [calls EXCEPT ![i].pc = "done", ![i].outcome = "ok"]
  /\ event' = "readDone"
  /\ UNCHANGED <<revision, twin, userMessage, loading, error, conversation, sent,
                 ragVars, now>>

\* reader.read() yields done: break, finally { setLoading(false); }
ReadDone(i) ==
  /\ Quiescent
  /\ calls[i].pc = "read"
  /\ loading' = FALSE
  /\ calls' = [calls EXCEPT ![i].pc = "done", ![i].outcome = "ok"]
  /\ event' = "readDone"
  /\ UNCHANGED <<revision, twin, userMessage, error, conversation, sent, ragVars, now>>

\* (variant) a failed read that sends the request again
ReadThrowRetry(i, message) ==
  /\ Quiescent
  /\ calls[i].pc = "read"
  /\ sent' = sent + 1
  /\ calls' = [calls EXCEPT ![i].pc = "fetch", ![i].nreq = calls[i].nreq + 1]
  /\ event' = "readThrow"
  /\ UNCHANGED <<revision, twin, userMessage, loading, error, conversation,
                 ragVars, now>>

\* reader.read() rejects
ReadThrow(i, message) ==
  /\ Quiescent
  /\ calls[i].pc = "read"
  /\ Catch(i, message, "stream_error", calls[i].status)
  /\ event' = "readThrow"
  /\ UNCHANGED <<revision, twin, userMessage, sent, ragVars>>

\* clearConversation, the Clear Chat button (never disabled).  The update of
\* `calls` only notes, for the properties, that the transcript was emptied
\* while an invocation was awaiting.
ClearConversation ==
  /\ Quiescent
  /\ conversation' = << >>
  /\ error' = ""
  /\ calls' = [i \in CallIds |->
                 IF calls[i].pc = "fetch"
                   THEN [calls[i] EXCEPT !.cleared = "sending"]
                 ELSE IF calls[i].pc = "read"
                   THEN [calls[i] EXCEPT !.cleared = "streaming"]
                 ELSE calls[i]]
  /\ event' = "clearConversation"
  /\ UNCHANGED <<revision, twin, userMessage, loading, sent, ragVars, now>>

\* onChange of the message input, which is disabled={loading}
SetUserMessage(text) ==
  /\ Quiescent
  /\ ~loading
  /\ text # userMessage
  /\ userMessage' = text
  /\ event' = "setUserMessage"
  /\ UNCHANGED <<revision, twin, loading, error, conversation, calls, sent,
                 ragVars, now>>

(***************************************************************************)
(* The RAG side: the API key input, the file input, uploadDataFile,        *)
(* clearDataFileIndex and the status effect.  A handler can be invoked in  *)
(* any state in which it is not already running (its button is disabled    *)
(* while it runs); what it does with an input it does not accept is its    *)
(* own check.  The file history (fetchFileHistory) is not part of the      *)
(* state: it catches its own failures and writes fileHistory only.         *)
(***************************************************************************)
chatAll == <<chatVars, now>>

\* onChange of the API key input
SetApiKey(text) ==
  /\ Quiescent
  /\ text # apiKey
  /\ apiKey' = text
  /\ event' = "setApiKey"
  /\ UNCHANGED <<revision, twin, chatAll, dataFile, dataFileStatus, isRagMode,
                 uploadingDataFile, effects, upload, clearing, deleteIssued,
                 serverIndex>>

\* file.type === "application/pdf" || file.type === "text/plain"
IsValidType(type) == type \in {"application/pdf", "text/plain"}

\* setDataFile(file) followed by the render and the effect on [dataFile]:
\* a File object is a new value, null over null is no change
SetDataFile(file) ==
  /\ dataFile' = file
  /\ IF file = "null" /\ dataFile = "null"
       THEN UNCHANGED effects
       ELSE /\ HasFreeEffect
            /\ effects' = RunEffect(effects, file)

\* handleFileChange, onChange of the file input.  part_000 treats a
\* cancelled dialog like an unsupported file.
HandleFileChange(file) ==
  /\ Quiescent
  /\ IF IsBlank(apiKey)
       THEN /\ error' = "Please enter your API key first before selecting a file"
            /\ UNCHANGED <<dataFile, effects>>
     ELSE IF file = "none" /\ revision = "App.jsx"
       THEN UNCHANGED <<error, dataFile, effects>>
     ELSE IF file # "none" /\ IsValidType(file)
       THEN /\ SetDataFile(file)
            /\ error' = ""
     ELSE /\ error' = "Please select a valid PDF or TXT file"
          /\ SetDataFile("null")
  /\ event' = "fileChange"
  /\ UNCHANGED <<revision, twin, userMessage, loading, conversation, calls, sent,
                 now, apiKey, dataFileStatus, isRagMode, uploadingDataFile,
                 upload, clearing, deleteIssued, serverIndex>>

\* uploadDataFile up to its await of fetch("/api/upload-data-file")
UploadDataFile ==
  /\ Quiescent
  /\ upload = "idle"
  /\ IF dataFile = "null" \/ apiKey = << >>
       THEN /\ error' = "Please select a PDF or TXT file and enter your API key"
            /\ event' = "uploadRejected"
            /\ UNCHANGED <<uploadingDataFile, upload>>
       ELSE /\ uploadingDataFile' = TRUE
            /\ error' = ""
            /\ upload' = "pending"
            /\ event' = "upload"
  /\ UNCHANGED <<revision, twin, userMessage, loading, conversation, calls, sent,
                 now, apiKey, dataFile, dataFileStatus, isRagMode, effects,
                 clearing, deleteIssued, serverIndex>>

\* the upload response arrives: response.ok, or a detail to throw
UploadRespond(ok, detail) ==
  /\ Quiescent
  /\ upload = "pending"
  /\ IF ok
       THEN /\ dataFileStatus' = Status(TRUE)
            /\ isRagMode' = TRUE
            /\ error' = ""
            /\ deleteIssued' = FALSE
            /\ serverIndex' = TRUE
       ELSE /\ error' = (IF detail # "" THEN detail
                         ELSE "Failed to upload data file")
            /\ UNCHANGED <<dataFileStatus, isRagMode, deleteIssued,
                           serverIndex>>
  /\ uploadingDataFile' = FALSE
  /\ upload' = "idle"
  /\ event' = "uploadRespond"
  /\ UNCHANGED <<revision, twin, userMessage, loading, conversation, calls, sent,
                 now, apiKey, dataFile, effects, clearing>>

\* (variant) a rejected upload that leaves the uploading flag set
UploadRejectNoFinally(message) ==
  /\ Quiescent
  /\ upload = "pending"
  /\ error' = (IF message # "" THEN message ELSE "Failed to upload data file")
  /\ upload' = "idle"
  /\ event' = "uploadReject"
  /\ UNCHANGED <<revision, twin, userMessage, loading, conversation, calls, sent,
                 now, apiKey, dataFile, dataFileStatus, isRagMode, effects,
                 clearing, deleteIssued, serverIndex, uploadingDataFile>>

\* the upload request is rejected
UploadReject(message) ==
  /\ Quiescent
  /\ upload = "pending"
  /\ error' = (IF message # "" THEN message ELSE "Failed to upload data file")
  /\ uploadingDataFile' = FALSE
  /\ upload' = "idle"
  /\ event' = "uploadReject"
  /\ UNCHANGED <<revision, twin, userMessage, loading, conversation, calls, sent,
                 now, apiKey, dataFile, dataFileStatus, isRagMode, effects,
                 clearing, deleteIssued, serverIndex>>

\* clearDataFileIndex up to its await of the DELETE; the Clear button is
\* rendered while dataFileStatus?.is_indexed
ClearDataFileIndex ==
  /\ Quiescent
  /\ IsIndexed
  /\ clearing < MaxClears
  /\ clearing' = clearing + 1
  /\ deleteIssued' = TRUE
  /\ event' = "clearIndex"
  /\ UNCHANGED <<revision, twin, chatAll, apiKey, dataFile, dataFileStatus,
                 isRagMode, uploadingDataFile, effects, upload, serverIndex>>

\* the DELETE of clearDataFileIndex resolves, with response.ok = ok: the
\* server has removed its index if it answers with success; the handler
\* does not look at the response
ClearResolve(ok) ==
  /\ Quiescent
  /\ clearing > 0
  /\ clearing' = clearing - 1
  /\ serverIndex' = (IF ok THEN FALSE ELSE serverIndex)
  /\ dataFileStatus' = Status(FALSE)
  /\ SetDataFile("null")
  /\ isRagMode' = FALSE
  /\ error' = ""
  /\ event' = "clearResolve"
  /\ UNCHANGED <<revision, twin, userMessage, loading, conversation, calls, sent,
                 now, apiKey, uploadingDataFile, upload, deleteIssued>>

\* the DELETE of clearDataFileIndex is rejected
ClearReject ==
  /\ Quiescent
  /\ clearing > 0
  /\ clearing' = clearing - 1
  /\ error' = "Failed to clear data file index"
  /\ event' = "clearReject"
  /\ UNCHANGED <<revision, twin, userMessage, loading, conversation, calls, sent,
                 now, apiKey, dataFile, dataFileStatus, isRagMode,
                 uploadingDataFile, effects, upload, deleteIssued,
                 serverIndex>>

\* the status response arrives with data.is_indexed = indexed.  The reply
\* tells what the server held when the request reached it, which an upload
\* or a DELETE answered in between, or another session, may have changed:
\* its value is an input.
StatusRespond(e, indexed) ==
  /\ Quiescent
  /\ effects[e].pc = "status"
  /\ dataFileStatus' = Status(indexed)
  /\ IF indexed /\ effects[e].noFile
       THEN /\ effects' = [effects EXCEPT ![e].pc = "delete"]
            /\ deleteIssued' = TRUE
            /\ UNCHANGED isRagMode
       ELSE /\ effects' = [effects EXCEPT ![e] = IdleEffect]
            /\ isRagMode' = indexed
            /\ UNCHANGED deleteIssued
  /\ event' = "statusRespond"
  /\ UNCHANGED <<revision, twin, chatAll, apiKey, dataFile, uploadingDataFile,
                 upload, clearing, serverIndex>>

\* the status request is rejected, or its body is not JSON
StatusReject(e) ==
  /\ Quiescent
  /\ effects[e].pc = "status"
  /\ dataFileStatus' = Status(FALSE)
  /\ isRagMode' = FALSE
  /\ effects' = [effects EXCEPT ![e] = IdleEffect]
  /\ event' = "statusReject"
  /\ UNCHANGED <<revision, twin, chatAll, apiKey, dataFile, uploadingDataFile,
                 upload, clearing, deleteIssued, serverIndex>>

\* (variant) callbacks of the effect's DELETE that reset the status only
EffectDeleteSettleKeepMode(e, removed) ==
  /\ Quiescent
  /\ effects[e].pc = "delete"
  /\ serverIndex' = (IF removed THEN FALSE ELSE serverIndex)
  /\ dataFileStatus' = Status(FALSE)
  /\ effects' = [effects EXCEPT ![e] = IdleEffect]
  /\ event' = "effectDeleteSettle"
  /\ UNCHANGED <<revision, twin, chatAll, apiKey, dataFile, uploadingDataFile,
                 upload, clearing, deleteIssued, isRagMode>>

\* the DELETE sent by the status effect resolves or is rejected: both
\* callbacks reset the frontend state; the server has removed its index
\* (removed) if it answered with success
EffectDeleteSettle(e, removed) ==
  /\ Quiescent
  /\ effects[e].pc = "delete"
  /\ serverIndex' = (IF removed THEN FALSE ELSE serverIndex)
  /\ dataFileStatus' = Status(FALSE)
  /\ isRagMode' = FALSE
  /\ effects' = [effects EXCEPT ![e] = IdleEffect]
  /\ event' = "effectDeleteSettle"
  /\ UNCHANGED <<revision, twin, chatAll, apiKey, dataFile, uploadingDataFile,
                 upload, clearing, deleteIssued>>

\* the message submitted with the RAG side
RagChatText == <<32, 88>>

\* a step of the RAG side that starts a run of the status effect finds
\* fewer than MaxRagEffects runs in flight
EffectRoom == effects' # effects => EffectsInFlight < MaxRagEffects

\* The chat handlers run here on one message, and the request is answered
\* by an empty stream.  The failures of a request, the reading of chunks,
\* clearConversation and the blank submit, which neither read nor write the
\* RAG side, are left to Spec.
NextRag ==
  \/ (sent < MaxRagSubmits /\ HandleSubmitRegular)
  \/ (sent < MaxRagSubmits /\ HandleSubmitRag)
  \/ \E i \in CallIds : ClearInput(i)
  \/ \E i \in CallIds : Dispatch(i)
  \/ \E i \in CallIds : FetchRespond(i, 200, TRUE)
  \/ \E i \in CallIds : ReadDone(i)
  \/ SetUserMessage(RagChatText)
  \/ \E k \in KeyTexts : SetApiKey(k)
  \/ \E f \in Selections : (HandleFileChange(f) /\ EffectRoom)
  \/ UploadDataFile
  \/ \E ok \in BOOLEAN, d \in UploadDetails : UploadRespond(ok, d)
  \/ \E m \in RejectMessages : UploadReject(m)
  \/ ClearDataFileIndex
  \/ \E ok \in BOOLEAN : (ClearResolve(ok) /\ EffectRoom)
  \/ ClearReject
  \/ \E e \in EffectIds, ix \in BOOLEAN : StatusRespond(e, ix)
  \/ \E e \in EffectIds : StatusReject(e)
  \/ \E e \in EffectIds, ok \in BOOLEAN : EffectDeleteSettle(e, ok)

\* The RAG side alone, with no chat going on.
NextIndex ==
  \/ \E k \in KeyTexts : SetApiKey(k)
  \/ \E f \in Selections : HandleFileChange(f)
  \/ UploadDataFile
  \/ \E ok \in BOOLEAN, d \in UploadDetails : UploadRespond(ok, d)
  \/ \E m \in RejectMessages : UploadReject(m)
  \/ ClearDataFileIndex
  \/ \E ok \in BOOLEAN : ClearResolve(ok)
  \/ ClearReject
  \/ \E e \in EffectIds, ix \in BOOLEAN : StatusRespond(e, ix)
  \/ \E e \in EffectIds : StatusReject(e)
  \/ \E e \in EffectIds, ok \in BOOLEAN : EffectDeleteSettle(e, ok)

Next ==
  \/ HandleSubmitBlank
  \/ HandleSubmitRegular
  \/ HandleSubmitRag
  \/ \E i \in CallIds : ClearInput(i)
  \/ \E i \in CallIds : Dispatch(i)
  \/ \E i \in CallIds, m \in RejectMessages : FetchReject(i, m)
  \/ \E i \in CallIds, s \in Statuses, b \in BOOLEAN : FetchRespond(i, s, b)
  \/ \E i \in CallIds, c \in ChunkSet : ReadChunk(i, c)
  \/ \E i \in CallIds : ReadDone(i)
  \/ \E i \in CallIds, m \in RejectMessages : ReadThrow(i, m)
  \/ ClearConversation
  \/ \E t \in InputTexts : SetUserMessage(t)

Spec == Init /\ [][Next]_vars

SpecRevisions == InitRevisions /\ [][Next]_vars

SpecUpdaters == InitUpdaters /\ [][Next]_vars

\* the current revision with its RAG side
SpecRag == InitRag /\ [][NextRag]_vars

\* the RAG side of the current revision
SpecIndex == InitRag /\ [][NextIndex]_vars

\* The continuations of an invocation.  The synchronous prefix runs on
\* without a wait; a pending fetch is settled by a rejection or a response,
\* and a pending read() by a chunk, the end of the stream or a failure.
\* Which text is typed, which bytes a chunk holds and which message a
\* failure carries decide nothing about the return of a handler: one of
\* each is kept.
FetchSettle(i) ==
  \/ FetchReject(i, "Failed to fetch")
  \/ \E s \in Statuses, b \in BOOLEAN : FetchRespond(i, s, b)

ReadSettle(i) ==
  \/ ReadChunk(i, <<169>>)
  \/ ReadDone(i)
  \/ ReadThrow(i, "")

NextLive ==
  \/ HandleSubmitRegular
  \/ HandleSubmitRag
  \/ \E i \in CallIds : ClearInput(i)
  \/ \E i \in CallIds : Dispatch(i)
  \/ \E i \in CallIds : FetchSettle(i)
  \/ \E i \in CallIds : ReadSettle(i)
  \/ ClearConversation
  \/ SetUserMessage(RagChatText)

\* the event loop runs every continuation that is ready, and every pending
\* network wait is settled; a stream has at most MaxChunks chunks
Fairness ==
  \A i \in CallIds :
    /\ WF_vars(ClearInput(i))
    /\ WF_vars(Dispatch(i))
    /\ WF_vars(FetchSettle(i))
    /\ WF_vars(ReadSettle(i))

\* the current revision when no wait stays pending for ever
SpecLive == Init /\ [][NextLive]_vars /\ Fairness

(***************************************************************************)
(* handleRegularChat and handleRagChat as functions of the chat side of a  *)
(* form, each translated from its own text, and two forms that run one of  *)
(* them each on the same inputs.  A handler runs from its entry to its     *)
(* first await in one piece; `clock` is the reading of new Date().         *)
(***************************************************************************)
\* handleRegularChat up to its await of fetch("/api/chat")
RegularChatSubmit(t, clock) ==
  IF IsBlank(t.userMessage) THEN t
  ELSE [currentUserMessage |-> t.userMessage, result |-> << >>,
        decoder |-> NewDecoder, nread |-> 0]
       @@ [t EXCEPT
             !.loading = TRUE,
             !.error = "",
             !.conversation = AppendMsg(@, UserMsg(t.userMessage, clock)),
             !.userMessage = << >>,
             !.request = [endpoint |-> "/api/chat",
                          user_message |-> t.userMessage,
                          fields |-> {"system_message", "user_message",
                                   "model", "api_key"}],
             !.pc = "fetch"]

\* its catch and finally blocks
RegularChatCatch(t, message) ==
  [t EXCEPT !.error = (IF message # "" THEN message
                       ELSE "Unknown error occurred"),
            !.conversation = SliceLast(@),
            !.loading = FALSE,
            !.pc = "done"]

RegularChatReject(t, message) ==
  IF t.pc # "fetch" THEN t ELSE RegularChatCatch(t, message)

\* the response arrives: res.ok, res.body, the placeholder, the first read()
RegularChatRespond(t, status, hasBody, clock) ==
  IF t.pc # "fetch" THEN t
  ELSE IF ~ResOk(status) THEN RegularChatCatch(t, HttpErrorMessage(status))
  ELSE IF ~hasBody THEN RegularChatCatch(t, "No response body")
  ELSE [t EXCEPT !.conversation = AppendMsg(@, AssistantMsg(clock)),
                 !.pc = "read"]

\* read() yields a chunk
RegularChatChunk(t, bytes) ==
  IF t.pc # "read" THEN t
  ELSE LET d   == Decode(t.decoder, bytes, TRUE)
           res == t.result \o d.out
       IN  [t EXCEPT !.result = res, !.decoder = d.dec, !.nread = @ + 1,
                     !.conversation = UpdateLastGuarded(@, res)]

\* read() yields done
RegularChatDone(t) ==
  IF t.pc # "read" THEN t ELSE [t EXCEPT !.loading = FALSE, !.pc = "done"]

\* read() rejects
RegularChatThrow(t, message) ==
  IF t.pc # "read" THEN t ELSE RegularChatCatch(t, message)

\* handleRagChat up to its await of fetch("/api/rag-chat")
RagChatSubmit(t, clock) ==
  IF IsBlank(t.userMessage) \/ ~IsIndexed THEN t
  ELSE [currentUserMessage |-> t.userMessage, result |-> << >>,
        decoder |-> NewDecoder, nread |-> 0]
       @@ [t EXCEPT
             !.loading = TRUE,
             !.error = "",
             !.conversation = AppendMsg(@, UserMsg(t.userMessage, clock)),
             !.userMessage = << >>,
             !.request = [endpoint |-> "/api/rag-chat",
                          user_message |-> t.userMessage,
                          fields |-> {"user_message", "system_message",
                                   "api_key"}],
             !.pc = "fetch"]

RagChatCatch(t, message) ==
  [t EXCEPT !.error = (IF message # "" THEN message
                       ELSE "Unknown error occurred"),
            !.conversation = SliceLast(@),
            !.loading = FALSE,
            !.pc = "done"]

RagChatReject(t, message) ==
  IF t.pc # "fetch" THEN t ELSE RagChatCatch(t, message)

\* (variant) a handler that does not look at res.ok
RagChatRespondUnchecked(t, status, hasBody, clock) ==
  IF t.pc # "fetch" THEN t
  ELSE IF ~hasBody THEN RagChatCatch(t, "No response body")
  ELSE [t EXCEPT !.conversation = AppendMsg(@, AssistantMsg(clock)),
                 !.pc = "read"]

RagChatRespond(t, status, hasBody, clock) ==
  IF t.pc # "fetch" THEN t
  ELSE IF ~ResOk(status) THEN RagChatCatch(t, HttpErrorMessage(status))
  ELSE IF ~hasBody THEN RagChatCatch(t, "No response body")
  ELSE [t EXCEPT !.conversation = AppendMsg(@, AssistantMsg(clock)),
                 !.pc = "read"]

RagChatChunk(t, bytes) ==
  IF t.pc # "read" THEN t
  ELSE LET d   == Decode(t.decoder, bytes, TRUE)
           res == t.result \o d.out
       IN  [t EXCEPT !.result = res, !.decoder = d.dec, !.nread = @ + 1,
                     !.conversation = UpdateLastGuarded(@, res)]

RagChatDone(t) ==
  IF t.pc # "read" THEN t ELSE [t EXCEPT !.loading = FALSE, !.pc = "done"]

RagChatThrow(t, message) ==
  IF t.pc # "read" THEN t ELSE RagChatCatch(t, message)

\* the message input (disabled while loading) and the Clear Chat button
TypeInto(t, text) ==
  IF t.loading THEN t ELSE [t EXCEPT !.userMessage = text]
ClearChat(t) == [t EXCEPT !.conversation = << >>, !.error = ""]

\* what the main form keeps while the two forms side by side run
formVars == <<revision, userMessage, apiKey, loading, error, conversation,
              dataFile, dataFileStatus, isRagMode, uploadingDataFile,
              effects, upload, clearing, deleteIssued, serverIndex, calls>>

TwinAt(pc) == twin.rag.pc = pc \/ twin.regular.pc = pc
TwinInFlight == TwinAt("fetch") \/ TwinAt("read")

\* a step of the two forms: both get the same input
TwinStep(rag, regular, name) ==
  /\ twin' = [rag |-> rag, regular |-> regular]
  /\ event' = name
  /\ UNCHANGED formVars

TwinType(text) ==
  /\ ~TwinInFlight
  /\ text # twin.regular.userMessage
  /\ TwinStep(TypeInto(twin.rag, text), TypeInto(twin.regular, text),
              "setUserMessage")
  /\ UNCHANGED <<sent, now>>

TwinSubmit ==
  /\ ~TwinInFlight
  /\ sent < MaxSubmits
  /\ ~IsBlank(twin.regular.userMessage) \/ ~IsBlank(twin.rag.userMessage)
  /\ ReadClock
  /\ sent' = sent + 1
  /\ TwinStep(RagChatSubmit(twin.rag, now'),
              RegularChatSubmit(twin.regular, now'), "submit")

TwinFetchReject(message) ==
  /\ TwinAt("fetch")
  /\ TwinStep(RagChatReject(twin.rag, message),
              RegularChatReject(twin.regular, message), "fetchReject")
  /\ UNCHANGED <<sent, now>>

TwinFetchRespond(status, hasBody) ==
  /\ TwinAt("fetch")
  /\ ReadClock
  /\ TwinStep(RagChatRespond(twin.rag, status, hasBody, now'),
              RegularChatRespond(twin.regular, status, hasBody, now'),
              "fetchRespond")
  /\ UNCHANGED sent

TwinReadChunk(bytes) ==
  /\ TwinAt("read")
  /\ twin.regular.nread < MaxChunks
  /\ twin.rag.nread < MaxChunks
  /\ TwinStep(RagChatChunk(twin.rag, bytes),
              RegularChatChunk(twin.regular, bytes), "readChunk")
  /\ UNCHANGED <<sent, now>>

TwinReadDone ==
  /\ TwinAt("read")
  /\ TwinStep(RagChatDone(twin.rag), RegularChatDone(twin.regular),
              "readDone")
  /\ UNCHANGED <<sent, now>>

TwinReadThrow(message) ==
  /\ TwinAt("read")
  /\ TwinStep(RagChatThrow(twin.rag, message),
              RegularChatThrow(twin.regular, message), "readThrow")
  /\ UNCHANGED <<sent, now>>

TwinClearConversation ==
  /\ TwinStep(ClearChat(twin.rag), ClearChat(twin.regular),
              "clearConversation")
  /\ UNCHANGED <<sent, now>>

NextTwin ==
  \/ \E t \in InputTexts : TwinType(t)
  \/ TwinSubmit
  \/ \E m \in RejectMessages : TwinFetchReject(m)
  \/ \E s \in Statuses, b \in BOOLEAN : TwinFetchRespond(s, b)
  \/ \E c \in ChunkSet : TwinReadChunk(c)
  \/ TwinReadDone
  \/ \E m \in RejectMessages : TwinReadThrow(m)
  \/ TwinClearConversation

\* the current revision with the index present
InitTwin ==
  /\ revision = "App.jsx"
  /\ InitSettings(RagIndexed)

\* handleRagChat and handleRegularChat side by side
SpecTwin == InitTwin /\ [][NextTwin]_vars

(***************************************************************************)
(* Vocabulary of the properties.                                           *)
(***************************************************************************)
FinishEvents == {"fetchReject", "fetchRespond", "readDone", "readThrow"}
RequestFailures == {"rejected", "http_error", "no_body"}

\* invocation i has returned in the step that led to this state
JustFinished(i) == calls[i].pc = "done" /\ event \in FinishEvents

\* the transcript is the one invocation i started from, followed by `tail`
ExtendsPre(i, tail) ==
  /\ Len(conversation) = Len(calls[i].pre) + Len(tail)
  /\ SubSeq(conversation, 1, Len(calls[i].pre)) = calls[i].pre
  /\ \A k \in 1 .. Len(tail) :
       /\ conversation[Len(calls[i].pre) + k].type = tail[k].type
       /\ conversation[Len(calls[i].pre) + k].content = tail[k].content

UserTurn(i) == [type |-> "user", content |-> calls[i].currentUserMessage]
AssistantTurn(text) == [type |-> "assistant", content |-> text]

\* the bytes of a sequence of chunks, joined
RECURSIVE Flatten(_)
Flatten(chunks) ==
  IF chunks = << >> THEN << >> ELSE Head(chunks) \o Flatten(Tail(chunks))

\* the text of the bytes received so far, decoded as one piece by a decoder
\* that waits for the rest of an unfinished character
TextOf(chunks) == Decode(NewDecoder, Flatten(chunks), TRUE).out

\* C1: when the request phase of a non-blank submit fails (fetch rejected,
\* non-success status, response without a body), the transcript at the end
\* of the submit is the pre-submit transcript followed by exactly the new
\* user turn, and the error message is non-empty.
C1_RequestFailureKeepsUserTurn ==
  \A i \in CallIds :
    (JustFinished(i) /\ calls[i].outcome \in RequestFailures)
      => /\ ExtendsPre(i, <<UserTurn(i)>>)
         /\ error # ""

\* C2: when reading the stream throws after k > 0 chunks, at the end of the
\* submit the placeholder is gone, the user turn of the submit is the last
\* turn, and the error message is non-empty.
C2_StreamFailureAsStated ==
  \A i \in CallIds :
    (JustFinished(i) /\ calls[i].outcome = "stream_error"
       /\ calls[i].nread > 0)
      => /\ ExtendsPre(i, <<UserTurn(i)>>)
         /\ error # ""

\* What the code does on a mid-stream failure (companion of C2): the error
\* message is non-empty and no assistant turn of the submit is left; the
\* transcript is the pre-submit transcript followed by the user turn if
\* clearConversation did not run during the submit, and is empty if it did.
C2_StreamFailureRollsBack ==
  \A i \in CallIds :
    (JustFinished(i) /\ calls[i].outcome = "stream_error"
       /\ calls[i].nread > 0)
      => /\ error # ""
         /\ IF calls[i].cleared = "no"
              THEN ExtendsPre(i, <<UserTurn(i)>>)
              ELSE conversation = << >>

\* a stream that threw after chunks were applied, on top of an earlier
\* exchange, with no clearConversation in between
C2_Witness ==
  \E i \in CallIds :
    /\ JustFinished(i)
    /\ calls[i].outcome = "stream_error"
    /\ calls[i].nread > 0
    /\ calls[i].result # << >>
    /\ calls[i].cleared = "no"
    /\ Len(calls[i].pre) = 2

\* C3: after every successful stream of n >= 1 chunks the transcript is the
\* pre-submit transcript followed by the user turn and an assistant turn
\* holding the text of the chunks in arrival order.
C3_SuccessAsStated ==
  \A i \in CallIds :
    (JustFinished(i) /\ calls[i].outcome = "ok" /\ calls[i].nread >= 1)
      => ExtendsPre(i, <<UserTurn(i), AssistantTurn(TextOf(calls[i].delivered))>>)

\* What the code does on a successful stream of n >= 1 chunks (companion of
\* C3): if clearConversation did not run during the submit the transcript
\* is the pre-submit transcript followed by the user turn and an assistant
\* turn holding the text of the chunks in arrival order; if it last ran
\* before the placeholder was appended the transcript is that assistant
\* turn alone; if it ran after, the transcript is empty.
C3_SuccessAssemblesChunks ==
  \A i \in CallIds :
    (JustFinished(i) /\ calls[i].outcome = "ok" /\ calls[i].nread >= 1)
      => CASE calls[i].cleared = "no" ->
                ExtendsPre(i, <<UserTurn(i),
                                AssistantTurn(TextOf(calls[i].delivered))>>)
           [] calls[i].cleared = "sending" ->
                /\ Len(conversation) = 1
                /\ conversation[1].type = "assistant"
                /\ conversation[1].content = TextOf(calls[i].delivered)
           [] calls[i].cleared = "streaming" ->
                conversation = << >>

\* a finished stream of two chunks that split U+00E9, giving "H" and U+00E9
C3_Witness ==
  \E i \in CallIds :
    /\ JustFinished(i)
    /\ calls[i].outcome = "ok"
    /\ calls[i].delivered = <<<<72, 195>>, <<169>>>>
    /\ calls[i].cleared = "no"
    /\ conversation[Len(conversation)].content = <<72, 233>>

\* C4: in every revision the final assistant content of a successful stream
\* is the text the revision's decoder gives for the same bytes received as
\* one chunk, however the bytes were split into chunks.
C4_FragmentationIndependent ==
  \A i \in CallIds :
    (JustFinished(i) /\ calls[i].outcome = "ok"
       /\ Len(conversation) >= 1
       /\ conversation[Len(conversation)].type = "assistant")
      => conversation[Len(conversation)].content
           = DecodeChunk(NewDecoder, Flatten(calls[i].delivered)).out

\* C5: in every revision a chat response with a non-2xx status ends the
\* submit as a failure: no placeholder is appended, no chunk of the body is
\* read into the transcript, and the error message is set.
C5_NonSuccessIsFailure ==
  \A i \in CallIds :
    (calls[i].status # 0 /\ ~(calls[i].status \in 200 .. 299))
      => /\ calls[i].pc = "done"
         /\ calls[i].outcome \in RequestFailures
         /\ calls[i].nread = 0
         /\ (JustFinished(i) => error # "")

\* C6: the busy flag is true exactly while a submit is between its start
\* and its terminal transition, and false in every other state.
C6_BusyExactlyInFlight ==
  loading <=> (\E i \in CallIds : calls[i].pc \in ActivePcs)

\* a submit that ended with a mid-stream error and released the flag
C6_Witness ==
  \E i \in CallIds :
    /\ JustFinished(i)
    /\ calls[i].outcome = "stream_error"
    /\ ~loading

\* C7: the transcript never holds an assistant turn that is not immediately
\* preceded by a user turn (so never two assistant turns in a row either).
C7_AssistantFollowsUser ==
  \A k \in 1 .. Len(conversation) :
    conversation[k].type = "assistant"
      => (k > 1 /\ conversation[k - 1].type = "user")

\* C8: at most one invocation of the chat handler is between its entry and
\* its return, so that while loading no second user turn is appended, no
\* second request is dispatched and at most one stream is being read.
C8_SingleSubmitInFlight ==
  Cardinality({i \in CallIds : calls[i].pc \in ActivePcs}) <= 1

\* handleSubmit was invoked while a stream was being read, and returned at
\* its blank check
C8_Witness ==
  /\ loading
  /\ event = "submitBlank"
  /\ \E i \in CallIds : calls[i].pc = "read" /\ calls[i].nread > 0

\* C9: a non-blank submit first appends one user turn holding the submitted
\* text, then clears the input, then dispatches the request.
C9_AppendClearDispatch ==
  \A i \in CallIds :
    /\ calls[i].pc = "appended"
         => /\ ExtendsPre(i, <<[type |-> "user", content |-> userMessage]>>)
            /\ userMessage # << >>
            /\ calls[i].nreq = 0
    /\ calls[i].pc = "cleared"
         => /\ ExtendsPre(i, <<UserTurn(i)>>)
            /\ userMessage = << >>
            /\ calls[i].nreq = 0
    /\ (calls[i].pc = "fetch" /\ event = "dispatch")
         => /\ ExtendsPre(i, <<UserTurn(i)>>)
            /\ userMessage = << >>
            /\ calls[i].nreq = 1
            /\ calls[i].user_message = calls[i].currentUserMessage

\* the request of a second submit has just been dispatched
C9_Witness ==
  \E i \in CallIds :
    /\ calls[i].pc = "fetch"
    /\ event = "dispatch"
    /\ Len(calls[i].pre) = 2
    /\ calls[i].currentUserMessage = <<32, 88>>

SubmitEvents == {"submitBlank", "submitRegular", "submitRag"}
WhiteSpaceOnly(s) == \A k \in 1 .. Len(s) : IsWhiteSpace(s[k])

\* C10: an invocation of handleSubmit on an empty or whitespace-only input
\* changes neither the transcript, the error message, the busy flag nor the
\* input, and dispatches no request.
C10_BlankSubmitIsNoOp ==
  [][(event' \in SubmitEvents /\ WhiteSpaceOnly(userMessage))
       => UNCHANGED <<conversation, error, loading, userMessage, sent, calls>>]_vars

\* handleSubmit has returned on a whitespace-only input, with a transcript
\* and an error message in place
C10_Witness ==
  /\ event = "submitBlank"
  /\ userMessage = <<32>>
  /\ conversation # << >>
  /\ error # ""

(***************************************************************************)
(* Turns and invocations.  A turn is identified by its timestamp: every    *)
(* turn is created with a new reading of the clock.                        *)
(***************************************************************************)
Failures == RequestFailures \cup {"stream_error"}

\* the assistant turns of the transcript that were created during
\* invocation i: after its user turn and before the user turn of any later
\* invocation
AssistantTurnsOf(i) ==
  {k \in 1 .. Len(conversation) :
     /\ conversation[k].type = "assistant"
     /\ conversation[k].timestamp > calls[i].utime
     /\ \A j \in CallIds :
          calls[j].utime > calls[i].utime
            => conversation[k].timestamp < calls[j].utime}

\* the turns whose content can still change: the placeholder of an
\* invocation that is reading its stream
InFlightTurns ==
  {k \in 1 .. Len(conversation) :
     \E i \in CallIds : /\ calls[i].pc = "read"
                        /\ conversation[k].timestamp = calls[i].atime}

\* the position of the controller of invocation i
Phase(pc) ==
  IF pc \in {"appended", "cleared", "fetch"} THEN "sending"
  ELSE IF pc = "read" THEN "streaming"
  ELSE "idle"

IsPrefix(s, t) == Len(s) <= Len(t) /\ s = SubSeq(t, 1, Len(s))

\* C11: when a stream ends with zero chunks after a success status, the
\* assistant turn created for the submit is in the transcript with empty
\* content at the end of the submit, and no error is set.
C11_EmptyStreamKeepsAssistantTurn ==
  \A i \in CallIds :
    (JustFinished(i) /\ calls[i].outcome = "ok" /\ calls[i].nread = 0)
      => /\ \E k \in 1 .. Len(conversation) :
              /\ conversation[k].timestamp = calls[i].atime
              /\ conversation[k].type = "assistant"
              /\ conversation[k].content = << >>
         /\ error = ""

\* C12: a finished submit has left at most one assistant turn in the
\* transcript, and a failed submit (request failure or mid-stream failure)
\* has left none, whether or not clearConversation ran during the submit.
C12_AtMostOneAssistantTurn ==
  \A i \in CallIds :
    calls[i].pc = "done"
      => /\ Cardinality(AssistantTurnsOf(i)) <= 1
         /\ calls[i].outcome \in Failures => AssistantTurnsOf(i) = {}

\* a stream failed after a chunk was applied, and clearConversation had run
\* while the request was pending
C12_Witness ==
  \E i \in CallIds :
    /\ JustFinished(i)
    /\ calls[i].outcome = "stream_error"
    /\ calls[i].nread > 0
    /\ calls[i].cleared = "sending"

\* C13: the controller of a submit moves only idle -> sending -> streaming
\* -> idle, sending -> idle on a request failure and streaming -> idle at
\* the end of the stream or on a mid-stream failure; while it is sending
\* the transcript holds no assistant turn of the submit.
C13_ControllerTransitions ==
  /\ [](\A i \in CallIds :
          Phase(calls[i].pc) = "sending" => AssistantTurnsOf(i) = {})
  /\ [][\A i \in CallIds :
          LET from == Phase(calls[i].pc)
              to   == Phase(calls'[i].pc)
          IN  /\ from = "idle" => to \in {"idle", "sending"}
              /\ from = "sending" => to \in {"sending", "streaming", "idle"}
              /\ from = "streaming" => to \in {"streaming", "idle"}
              /\ (from = "sending" /\ to = "idle")
                    => /\ calls'[i].outcome \in RequestFailures
                       /\ error' # ""
              /\ (from = "streaming" /\ to = "idle"
                     /\ calls'[i].outcome # "ok")
                    => /\ calls'[i].outcome = "stream_error"
                       /\ error' # ""]_vars

\* a second submit went from sending back to idle on a non-success status,
\* after a first one had gone through streaming
C13_Witness ==
  \E i \in CallIds :
    /\ JustFinished(i)
    /\ calls[i].outcome = "http_error"
    /\ Len(calls[i].pre) = 2
    /\ calls[i].pre[2].type = "assistant"

\* C14: at most one turn of the transcript can still change its content,
\* it is the last element when it is in the transcript, and a step changes
\* the content of no turn but that one.
C14_OnlyLastTurnInFlight ==
  /\ [](/\ Cardinality(InFlightTurns) <= 1
        /\ \A k \in InFlightTurns : k = Len(conversation))
  /\ [][\A k \in 1 .. Len(conversation), m \in 1 .. Len(conversation') :
          (/\ conversation[k].timestamp = conversation'[m].timestamp
           /\ conversation[k].content # conversation'[m].content)
            => /\ k \in InFlightTurns
               /\ k = Len(conversation)
               /\ m = Len(conversation')]_vars

\* the earliest revision has applied a chunk to the placeholder of a second
\* exchange
C14_Witness ==
  /\ revision = "part_001"
  /\ event = "readChunk"
  /\ Len(conversation) = 4
  /\ conversation[4].content # << >>

\* C20: while a stream is read, the content of its assistant turn is the
\* text of the chunks received so far; every change of a turn's content is
\* made by a chunk of the stream that created it and extends the content.
C20_ContentGrowsByChunks ==
  /\ [](\A i \in CallIds, k \in 1 .. Len(conversation) :
          (calls[i].pc = "read"
             /\ conversation[k].timestamp = calls[i].atime)
            => /\ conversation[k].content = TextOf(calls[i].delivered)
               /\ Len(calls[i].delivered) = calls[i].nread)
  /\ [][\A k \in 1 .. Len(conversation), m \in 1 .. Len(conversation') :
          (/\ conversation[k].timestamp = conversation'[m].timestamp
           /\ conversation[k].content # conversation'[m].content)
            => /\ event' = "readChunk"
               /\ IsPrefix(conversation[k].content, conversation'[m].content)
               /\ \E i \in CallIds :
                    /\ calls[i].pc = "read"
                    /\ calls[i].atime = conversation[k].timestamp
                    /\ calls'[i].nread = calls[i].nread + 1]_vars

\* two chunks have been applied to the assistant turn of a stream
C20_Witness ==
  \E i \in CallIds :
    /\ calls[i].pc = "read"
    /\ calls[i].nread = 2
    /\ Len(conversation) >= 1
    /\ conversation[Len(conversation)].timestamp = calls[i].atime
    /\ conversation[Len(conversation)].content = <<72, 233>>

(***************************************************************************)
(* The RAG side.                                                           *)
(***************************************************************************)
\* a chat handler is entered in this step by invocation i
Enters(i) == calls[i].pc \notin ActivePcs /\ calls'[i].pc = "appended"

\* the request of invocation i is dispatched in this step
Dispatches(i) == calls[i].pc = "cleared" /\ calls'[i].pc = "fetch"

\* no request of the RAG side is sent in this step: no upload, no
\* clear-index DELETE, no status request, and no chat request either
NoRequestSent ==
  /\ UNCHANGED <<upload, clearing, effects, sent, deleteIssued>>
  /\ \A i \in CallIds : ~Enters(i)

C16_UploadNeedsKeyAndFile ==
  [][((event' \in {"upload", "uploadRejected"}
         /\ (IsBlank(apiKey) \/ dataFile = "null"))
      \/ (event' = "fileChange" /\ IsBlank(apiKey)))
       => /\ NoRequestSent
          /\ error' # ""
          /\ ~uploadingDataFile'
          /\ UNCHANGED <<conversation, dataFileStatus, isRagMode, dataFile>>]_vars

\* C17: a retrieval-chat submit attempted with a blank API key sends no
\* request, sets a non-empty error message and leaves the transcript
\* unchanged.
C17_RagChatNeedsKey ==
  [][(event' = "submitRag" /\ IsBlank(apiKey))
       => /\ \A i \in CallIds : ~Enters(i)
          /\ error' # ""
          /\ UNCHANGED <<conversation, sent>>]_vars

\* C18: the selection of a file of an unsupported type sets an error
\* message, leaves the transcript unchanged and sends no request, in
\* particular no status request, also when a valid file was selected
\* before.
C18_UnsupportedTypeNoRequest ==
  [][(event' = "fileChange"
        /\ error' = "Please select a valid PDF or TXT file")
       => /\ NoRequestSent
          /\ UNCHANGED conversation]_vars

\* C19: no request to the retrieval-chat endpoint is dispatched after the
\* client has issued a clear-index DELETE and before a later upload has
\* succeeded.
C19_NoRagRequestAfterDelete ==
  [][\A i \in CallIds :
       (Dispatches(i) /\ calls[i].endpoint = "/api/rag-chat")
         => ~deleteIssued]_vars

(***************************************************************************)
(* The chunk update as a function, and the requests of a submit.           *)
(***************************************************************************)
\* texts a chunk update can be given
ResultTexts == {<< >>, <<72>>, <<72, 233>>}

\* C21: the per-chunk update is idempotent: it writes the whole accumulated
\* text into the last assistant turn, so applying the update of a chunk a
\* second time gives the transcript that applying it once gives; in
\* particular the transcript a chunk has left is not changed by applying
\* that chunk's update again.
C21_ChunkUpdateIdempotent ==
  /\ \A r \in ResultTexts :
       UpdateLast(UpdateLast(conversation, r), r) = UpdateLast(conversation, r)
  /\ \A i \in CallIds :
       (calls[i].pc = "read" /\ Len(conversation) >= 1
          /\ conversation[Len(conversation)].timestamp = calls[i].atime)
         => UpdateLast(conversation, calls[i].result) = conversation

\* the retrieval-chat handler has applied a chunk and its assistant turn
\* holds text
C21_Witness ==
  \E i \in CallIds :
    /\ event = "readChunk"
    /\ calls[i].pc = "read"
    /\ calls[i].kind = "rag"
    /\ calls[i].result # << >>
    /\ Len(conversation) >= 1
    /\ conversation[Len(conversation)].timestamp = calls[i].atime
    /\ conversation[Len(conversation)].content = calls[i].result

C23_OneRequestPerSubmit ==
  /\ [](\A i \in CallIds :
          /\ calls[i].pc \in SyncPcs => calls[i].nreq = 0
          /\ calls[i].pc \in {"fetch", "read", "done"} => calls[i].nreq = 1)
  /\ [][(\A i \in CallIds :
            /\ Enters(i)
                 => /\ ~IsBlank(userMessage)
                    /\ calls'[i].endpoint =
                         (IF isRagMode /\ IsIndexed THEN "/api/rag-chat"
                          ELSE "/api/chat")
            /\ Dispatches(i)
                 => /\ calls'[i].endpoint = calls[i].endpoint
                    /\ sent' = sent + 1
                    /\ \E k \in 1 .. Len(conversation) :
                         /\ conversation[k].type = "user"
                         /\ conversation[k].timestamp = calls[i].utime
                         /\ calls'[i].user_message = conversation[k].content)
        /\ (sent' # sent => \E j \in CallIds : Dispatches(j))]_vars

\* the request of a submit made in RAG mode has gone to the retrieval-chat
\* endpoint with the text as typed, leading blank included
C23_Witness ==
  \E i \in CallIds :
    /\ event = "dispatch"
    /\ calls[i].pc = "fetch"
    /\ calls[i].endpoint = "/api/rag-chat"
    /\ calls[i].user_message = <<32, 88>>
    /\ calls[i].nreq = 1

\* C24: if every pending network wait is settled and streams are finite,
\* every submit that has entered a chat handler returns: the invocation
\* ends, the busy flag is false and no handler is running, so that the
\* input is enabled and a new submit can be made.
C24_SubmitReturnsToIdle ==
  \A i \in CallIds :
    (calls[i].pc \in ActivePcs)
      ~> (calls[i].pc = "done" /\ ~loading
            /\ \A j \in CallIds : calls[j].pc \notin ActivePcs)

\* a second submit has returned after a stream of the largest length
C24_Witness ==
  \E i \in CallIds :
    /\ JustFinished(i)
    /\ ~loading
    /\ calls[i].nread = MaxChunks
    /\ Len(calls[i].pre) >= 1
    /\ sent = MaxSubmits

(***************************************************************************)
(* The index status: the status effect, uploadDataFile, clearDataFileIndex. *)
(***************************************************************************)
\* C25: when a status response reports is_indexed true while no file is
\* selected, the client issues a clear-index DELETE, and it ends with
\* is_indexed false and isRagMode false whether that DELETE succeeds or is
\* rejected; when the status request fails it also ends with both false.
C25_StaleIndexIsCleared ==
  [][/\ (event' = "statusRespond" /\ IsIndexed' /\ dataFile = "null")
          => \E e \in EffectIds : /\ effects[e].pc = "status"
                                   /\ effects'[e].pc = "delete"
     /\ event' \in {"effectDeleteSettle", "statusReject"}
          => (~IsIndexed' /\ ~isRagMode')]_vars

\* C26: in the state an upload has succeeded into (is_indexed and
\* isRagMode true), a step that is neither a clear of the index nor a
\* change of the file selection leaves is_indexed and isRagMode true, in
\* particular the arrival of a status response that was requested when the
\* file was selected.
C26_UploadSurvivesStatus ==
  [][(/\ event = "uploadRespond" /\ error = ""
      /\ IsIndexed /\ isRagMode
      /\ event' \notin {"clearIndex", "clearResolve", "clearReject",
                         "fileChange"})
       => (IsIndexed' /\ isRagMode')]_vars

\* C27: in every reachable state isRagMode is true only if
\* dataFileStatus.is_indexed is true.
C27_RagModeImpliesIndexed == isRagMode => IsIndexed

\* RAG mode was switched on by the status response of a run of the effect
\* that was started by a file selection, while an upload was pending
C27_Witness ==
  /\ event = "statusRespond"
  /\ isRagMode
  /\ IsIndexed
  /\ dataFile # "null"
  /\ upload = "pending"

\* the states of the transcript, the busy flag, the error and the input
ChatView(t) ==
  [conversation |-> t.conversation, loading |-> t.loading,
   error |-> t.error, userMessage |-> t.userMessage]

\* C28: started from the same state with the index present and given the
\* same inputs and the same server behaviour, handleRagChat and
\* handleRegularChat take the form through the same states of transcript,
\* busy flag, error and input, and stand at the same point; their requests
\* carry the same user_message and differ in the endpoint and in the
\* other fields of the payload only.
C28_SameSubmitProtocol ==
  /\ ChatView(twin.rag) = ChatView(twin.regular)
  /\ twin.rag.pc = twin.regular.pc
  /\ twin.rag.request.user_message = twin.regular.request.user_message
  /\ twin.rag.pc # "idle"
       => /\ twin.rag.request.endpoint = "/api/rag-chat"
          /\ twin.regular.request.endpoint = "/api/chat"

\* both handlers have served a first exchange, and a second submit has
\* failed in the middle of its stream
C28_Witness ==
  /\ event = "readThrow"
  /\ twin.rag.pc = "done"
  /\ twin.rag.nread >= 1
  /\ twin.rag.error # ""
  /\ Len(twin.rag.conversation) = 3
  /\ sent = MaxSubmits

\* C29: uploadingDataFile is true exactly while the upload request is
\* pending; the end of an upload either sets is_indexed and isRagMode true
\* with the error cleared (success) or leaves them as they were with a
\* non-empty error (failure; a rejected request is a failure); no step of
\* uploadDataFile changes the transcript or the busy flag of the chat.
C29_UploadOutcome ==
  /\ [](uploadingDataFile <=> upload = "pending")
  /\ [][/\ event' \in {"upload", "uploadRejected", "uploadRespond",
                        "uploadReject"}
            => UNCHANGED <<conversation, loading>>
        /\ event' \in {"uploadRespond", "uploadReject"}
            => /\ uploadingDataFile /\ ~uploadingDataFile'
               /\ \/ /\ error' = ""
                     /\ IsIndexed' /\ isRagMode'
                     /\ event' = "uploadRespond"
                  \/ /\ error' # ""
                     /\ UNCHANGED <<dataFileStatus, isRagMode>>]_vars

\* an upload has failed while a chat request was pending and the index was
\* known from a status response
C29_Witness ==
  /\ event = "uploadRespond"
  /\ error = "Failed to upload data file"
  /\ IsIndexed
  /\ loading
  /\ Len(conversation) = 1

\* C30: when clearDataFileIndex finishes without an error the index is
\* gone on the server as it is in the local state, and when the clear
\* request fails the local state is unchanged and the error is set.
C30_ClearAgreesWithServer ==
  [][/\ (event' = "clearResolve" /\ error' = "")
          => (~serverIndex' /\ ~IsIndexed')
     /\ event' = "clearReject"
          => /\ UNCHANGED <<dataFileStatus, dataFile, isRagMode>>
             /\ error' # ""]_vars

====
